---- MODULE Spec2Model ----
(***************************************************************************)
(* Pickup-resolution pipeline of app/utils/pickup.server.js: the geocoding *)
(* provider chain, the three LRU caches, the fulfillment-location client   *)
(* and buildPickupResponse.  Every `await` of the source is one step of    *)
(* the model: the code between two awaits runs atomically (one JavaScript  *)
(* event-loop turn), and the answer of the awaited service is chosen by    *)
(* the environment.                                                        *)
(***************************************************************************)
EXTENDS Integers, Sequences, FiniteSets, TLC

VARIABLES
  GEOCODER_MODE,          \* process.env.GEOCODER_MODE after `|| "auto"` and toLowerCase
  DEFAULT_RADIUS_KM,      \* process.env.DEFAULT_RADIUS_KM (a string, default "100")
  geocodeCache,           \* LRUCache: trimmed query |-> GeoPoint
  locationGeoCache,       \* LRUCache: location id |-> GeoPoint (or the failure sentinel)
  shopifyLocationsCache,  \* LRUCache: shop |-> list of active location nodes
  direct,                 \* geocode() invocations made by a direct caller: caller |-> frame
  req,                    \* the buildPickupResponse invocation in progress
  tasks,                  \* its per-location geocodeShopifyLocation tasks: location id |-> task
  pure,                   \* argument/result of a pure helper applied on its own
  quota                   \* what is left of the bounds on resolver requests and expiries

vars == << GEOCODER_MODE, DEFAULT_RADIUS_KM, geocodeCache, locationGeoCache,
           shopifyLocationsCache, direct, req, tasks, pure, quota >>

(***************************************************************************)
(* Bounds of the exploration: how many resolver requests are started and   *)
(* how many cache entries expire (or are evicted) in one behaviour.        *)
(***************************************************************************)
MaxRequests == 2

MaxExpiries == 1

FullQuota == [requests |-> MaxRequests, expiries |-> MaxExpiries]

(***************************************************************************)
(* Strings are sequences of one-character strings.                         *)
(***************************************************************************)
Digits == {"0", "1", "2", "3", "4", "5", "6", "7", "8", "9"}

Whitespace == {" "}

RECURSIVE TrimStart(_)
TrimStart(s) ==
  IF s # <<>> /\ Head(s) \in Whitespace THEN TrimStart(Tail(s)) ELSE s

RECURSIVE TrimEnd(_)
TrimEnd(s) ==
  IF s # <<>> /\ s[Len(s)] \in Whitespace
    THEN TrimEnd(SubSeq(s, 1, Len(s) - 1))
    ELSE s

\* String.prototype.trim
Trim(s) == TrimEnd(TrimStart(s))

\* /^\d{n}$/.test(s)
IsDigitsN(s, n) == Len(s) = n /\ \A i \in 1..Len(s) : s[i] \in Digits

\* const is6 = /^\d{6}$/.test(original)
is6(original) == IsDigitsN(original, 6)

\* const is4 = /^\d{4}$/.test(original)
is4(original) == IsDigitsN(original, 4)

isPinLike(original) == is6(original) \/ is4(original)

(***************************************************************************)
(* Errors: { name, code, status, meta }.  status 0 stands for an error     *)
(* object that has no `status` property; meta.kind = "none" for one        *)
(* without `meta`.                                                         *)
(***************************************************************************)
NoMeta == [kind |-> "none"]

InvalidPincodeError(pin) ==
  [name |-> "AppError", class |-> "InvalidPincodeError", code |-> "invalid_pincode",
   status |-> 400, meta |-> [kind |-> "pincode", pincode |-> pin]]

PincodeRequiredError ==
  [name |-> "AppError", class |-> "AppError", code |-> "pincode_required",
   status |-> 400, meta |-> [kind |-> "empty"]]

GeocodeNoResultError(query) ==
  [name |-> "AppError", class |-> "GeocodeNoResultError", code |-> "pin_unavailable",
   status |-> 422, meta |-> [kind |-> "query", query |-> query]]

GeocodeProviderError(provider, reason, query) ==
  [name |-> "AppError", class |-> "GeocodeProviderError", code |-> "geocode_provider_error",
   status |-> 502,
   meta |-> [kind |-> "provider", provider |-> provider, reason |-> reason, query |-> query]]

ShopifyGQLError(messages) ==
  [name |-> "AppError", class |-> "ShopifyGQLError", code |-> "shopify_graphql_error",
   status |-> 502, meta |-> [kind |-> "messages", messages |-> messages]]

InventoryItemMissingError ==
  [name |-> "AppError", class |-> "AppError", code |-> "inventory_item_missing",
   status |-> 404, meta |-> [kind |-> "empty"]]

\* What axios.get / gql.post rejects with when the transport fails.
AxiosError ==
  [name |-> "AxiosError", class |-> "AxiosError", code |-> "ERR_NETWORK",
   status |-> 0, meta |-> NoMeta]

(***************************************************************************)
(* JavaScript values a caller may pass: undefined, null, strings and       *)
(* (integer) numbers.                                                      *)
(***************************************************************************)
JsUndefined == [t |-> "undefined"]

JsNull == [t |-> "null"]

JsString(s) == [t |-> "string", s |-> s]

JsNumber(n) == [t |-> "number", n |-> n]

\* Boolean(v)
Truthy(v) ==
  CASE v.t = "string" -> v.s # << >>
    [] v.t = "number" -> v.n # 0
    [] OTHER -> FALSE

DigitChar(d) ==
  CASE d = 0 -> "0" [] d = 1 -> "1" [] d = 2 -> "2" [] d = 3 -> "3" [] d = 4 -> "4"
    [] d = 5 -> "5" [] d = 6 -> "6" [] d = 7 -> "7" [] d = 8 -> "8" [] OTHER -> "9"

DigitValue(ch) == CHOOSE d \in 0..9 : DigitChar(d) = ch

RECURSIVE NatToString(_)
NatToString(n) ==
  IF n < 10 THEN << DigitChar(n) >> ELSE Append(NatToString(n \div 10), DigitChar(n % 10))

\* String(v)
StringOf(v) ==
  CASE v.t = "string" -> v.s
    [] v.t = "number" -> IF v.n < 0 THEN << "-" >> \o NatToString(-v.n) ELSE NatToString(v.n)
    [] v.t = "null" -> << "n", "u", "l", "l" >>
    [] OTHER -> << "u", "n", "d", "e", "f", "i", "n", "e", "d" >>

RECURSIVE DigitsToNat(_)
DigitsToNat(s) ==
  IF s = << >> THEN 0
  ELSE 10 * DigitsToNat(SubSeq(s, 1, Len(s) - 1)) + DigitValue(s[Len(s)])

NaN == [finite |-> FALSE, n |-> 0]

Finite(n) == [finite |-> TRUE, n |-> n]

\* Number(v): undefined is NaN, null is 0; a string is trimmed, "" is 0, a run
\* of decimal digits is its value and any other text of the model's alphabet NaN.
ToNumber(v) ==
  CASE v.t = "number" -> Finite(v.n)
    [] v.t = "null" -> Finite(0)
    [] v.t = "string" ->
         LET text == Trim(v.s)
         IN  IF \A i \in 1..Len(text) : text[i] \in Digits
               THEN Finite(DigitsToNat(text))
               ELSE NaN
    [] OTHER -> NaN

\* export function numberOr(a, fb)
numberOr(a, fb) == IF ToNumber(a).finite THEN ToNumber(a).n ELSE fb

\* Mutant: every pincode passes validation.
validatePincodeSkipped(pincode) == [name |-> "ok"]

\* Mutant: the pincode is tested as passed, without trimming.
validatePincodeUntrimmed(pincode) ==
  IF ~Truthy(pincode) THEN PincodeRequiredError
  ELSE IF ~(is4(StringOf(pincode)) \/ is6(StringOf(pincode)))
    THEN InvalidPincodeError(pincode)
    ELSE [name |-> "ok"]

\* Lines 343-353 of buildPickupResponse: the error thrown, or "ok".
validatePincode(pincode) ==
  IF ~Truthy(pincode) THEN PincodeRequiredError
  ELSE IF ~(is4(Trim(StringOf(pincode))) \/ is6(Trim(StringOf(pincode))))
    THEN InvalidPincodeError(pincode)
    ELSE [name |-> "ok"]

\* const RADIUS = numberOr(radiusKm, numberOr(DEFAULT_RADIUS_KM, 100))
effectiveRadius(radiusKm, defaultRadiusKm) ==
  numberOr(radiusKm, numberOr(JsString(defaultRadiusKm), 100))

(***************************************************************************)
(* GeoPoints and the answers of the two geocoding providers.               *)
(***************************************************************************)
GeoPoint(lat, lng, formatted) == [lat |-> lat, lng |-> lng, formatted |-> formatted]

\* Coordinates a provider may answer with; <<0, 0>> is a legitimate answer.
\* The formatted_address / display_name of every answer is "address".
Coords == { <<0, 0>>, <<0, 1>>, <<1, 1>> }

\* Bodies of the primary provider (Google Geocoding API) and transport failure.
GoogleAnswers ==
  { [kind |-> "body", status |-> "OK", results |-> << GeoPoint(c[1], c[2], "address") >>,
     error_message |-> ""] : c \in Coords }
  \cup
  { [kind |-> "body", status |-> "ZERO_RESULTS", results |-> <<>>, error_message |-> ""],
    [kind |-> "body", status |-> "OK", results |-> <<>>, error_message |-> ""],
    [kind |-> "body", status |-> "REQUEST_DENIED", results |-> <<>>,
     error_message |-> "denied"],
    [kind |-> "reject", status |-> "", results |-> <<>>, error_message |-> ""] }

\* Bodies of the secondary provider (Nominatim): an array of candidates, a body
\* that is no array, or a transport failure.
OsmAnswers ==
  { [kind |-> "array", data |-> << GeoPoint(c[1], c[2], "address") >>] : c \in Coords }
  \cup
  { [kind |-> "array", data |-> <<>>],
    [kind |-> "object", data |-> <<>>],
    [kind |-> "reject", data |-> <<>>] }

(***************************************************************************)
(* LRU caches as partial functions.  has() is false for an expired entry,  *)
(* so expiry and eviction both remove the key.                             *)
(***************************************************************************)
CacheHas(cache, key) == key \in DOMAIN cache

CacheSet(cache, key, value) ==
  [k \in DOMAIN cache \cup {key} |-> IF k = key THEN value ELSE cache[k]]

CacheDelete(cache, key) == [k \in DOMAIN cache \ {key} |-> cache[k]]

EmptyCache == [k \in {} |-> 0]

(***************************************************************************)
(* geocode(address).  A frame is one invocation: pc names the strategy     *)
(* whose HTTP answer it awaits ("primary", "structured", "freeform") or    *)
(* how it ended ("returned" with val, "thrown" with err); calls lists the  *)
(* outbound requests it has issued, in order, and outs what each answered  *)
(* request came to: a match with its point, or no match; arg is the        *)
(* argument as passed and orig its trimmed form.                           *)
(***************************************************************************)
Idle == [pc |-> "idle"]

Waiting == {"primary", "structured", "freeform"}

Settled == {"returned", "thrown"}

\* Mutant: the structured postal-code search is tried for every query.
AfterPrimaryAlwaysStructured(original) == "structured"

\* The strategy tried after the primary provider did not match (lines 141-166).
AfterPrimary(original) == IF isPinLike(original) THEN "structured" ELSE "freeform"

\* Mutant: the mode switch is ignored and the primary provider always asked.
FirstStrategyIgnoresMode(mode, original) == "primary"

\* The first request geocode issues on a cache miss (lines 108-109, 142).
FirstStrategy(mode, original) ==
  IF mode # "osm" THEN "primary" ELSE AfterPrimary(original)

Issue(frame, strategy) ==
  [pc |-> strategy, arg |-> frame.arg, orig |-> frame.orig,
   calls |-> Append(frame.calls, strategy), outs |-> frame.outs]

Returned(frame, value) ==
  [pc |-> "returned", arg |-> frame.arg, orig |-> frame.orig, calls |-> frame.calls,
   outs |-> frame.outs, val |-> value]

Thrown(frame, error) ==
  [pc |-> "thrown", arg |-> frame.arg, orig |-> frame.orig, calls |-> frame.calls,
   outs |-> frame.outs, err |-> error]

\* Mutant: the cache is keyed by the query as passed, not by its trimmed form.
geocodeEnterUntrimmed(cache, mode, address) ==
  LET fresh == [pc |-> "entry", arg |-> address, orig |-> address, calls |-> <<>>,
                outs |-> <<>>]
  IN  IF CacheHas(cache, address)
        THEN Returned(fresh, cache[address])
        ELSE Issue(fresh, FirstStrategy(mode, address))

\* Lines 93-109: trim, cache lookup, and on a miss the first outbound request.
geocodeEnter(cache, mode, address) ==
  LET original == Trim(address)
      fresh == [pc |-> "entry", arg |-> address, orig |-> original, calls |-> <<>>,
                outs |-> <<>>]
  IN  IF CacheHas(cache, original)
        THEN Returned(fresh, cache[original])
        ELSE Issue(fresh, FirstStrategy(mode, original))

\* data.status === "OK" && data.results?.length
GoogleMatches(answer) ==
  answer.kind = "body" /\ answer.status = "OK" /\ Len(answer.results) > 0

\* `status=${data.status}${msg}`
GoogleReason(answer) ==
  IF answer.error_message # ""
    THEN << "status=", answer.status, " - ", answer.error_message >>
    ELSE << "status=", answer.status >>

\* Lines 129-137: what the primary step throws in mode "google".
GoogleFailure(answer, original) ==
  IF answer.kind = "body"
    THEN GeocodeProviderError("google", GoogleReason(answer), original)
    ELSE AxiosError

\* Array.isArray(data) && data.length > 0
OsmMatches(answer) == answer.kind = "array" /\ Len(answer.data) > 0

\* Whether the awaited answer is a match for the strategy the frame waits on.
Matches(frame, answer) ==
  IF frame.pc = "primary" THEN GoogleMatches(answer) ELSE OsmMatches(answer)

MatchValue(frame, answer) ==
  IF frame.pc = "primary" THEN answer.results[1] ELSE answer.data[1]

\* The frame with the outcome of the request it waited on recorded.
Answered(frame, answer) ==
  [frame EXCEPT !.outs =
     Append(@, IF Matches(frame, answer)
                 THEN [match |-> TRUE, point |-> MatchValue(frame, answer)]
                 ELSE [match |-> FALSE])]

\* Lines 124-189 from the arrival of one answer to the next await, return or throw.
geocodeResume(frame, mode, answer) ==
  LET f == Answered(frame, answer)
  IN  IF Matches(frame, answer)
        THEN Returned(f, MatchValue(frame, answer))
        ELSE CASE frame.pc = "primary" ->
                    IF mode = "google"
                      THEN Thrown(f, GoogleFailure(answer, frame.orig))
                      ELSE Issue(f, AfterPrimary(frame.orig))
               [] frame.pc = "structured" -> Issue(f, "freeform")
               [] OTHER -> Thrown(f, GeocodeNoResultError(frame.orig))

\* Mutant: an entry already present is kept (first writer wins).
cacheOkKeepsFirst(cache, before, after) ==
  IF before.pc \in Waiting /\ after.pc = "returned" /\ ~CacheHas(cache, after.orig)
    THEN CacheSet(cache, after.orig, after.val)
    ELSE cache

\* Mutant: a lookup that ends in an error is cached as well.
cacheOkAlsoFailures(cache, before, after) ==
  IF before.pc \in Waiting /\ after.pc \in Settled
    THEN CacheSet(cache, after.orig,
                  IF after.pc = "returned" THEN after.val
                  ELSE GeoPoint(0, 0, "Geocode failed"))
    ELSE cache

\* cacheOk: the cache after the step that took `before` to `after`.
cacheOk(cache, before, after) ==
  IF before.pc \in Waiting /\ after.pc = "returned"
    THEN CacheSet(cache, after.orig, after.val)
    ELSE cache

\* The answers the environment may give to the request a frame waits on.
Answers(frame) == IF frame.pc = "primary" THEN GoogleAnswers ELSE OsmAnswers

(***************************************************************************)
(* The universe of the model.                                              *)
(***************************************************************************)
Modes == {"auto", "google", "osm"}

Q1234 == << "1", "2", "3", "4" >>

Q1234Padded == << " ", "1", "2", "3", "4", " " >>

Q123456 == << "1", "2", "3", "4", "5", "6" >>

Q12345 == << "1", "2", "3", "4", "5" >>

QText == << "a", "b" >>

QEmpty == << >>

\* Queries a direct caller of geocode passes.
DirectAddresses == { Q1234, Q1234Padded, Q123456, Q12345, QText }

(***************************************************************************)
(* A direct caller of the exported geocode().                              *)
(***************************************************************************)
Others == << DEFAULT_RADIUS_KM, locationGeoCache, shopifyLocationsCache, req, tasks, pure >>

Expired == quota' = [quota EXCEPT !.expiries = @ - 1]

geocodeCall(c, address) ==
  /\ direct[c].pc = "idle"
  /\ direct' = [direct EXCEPT ![c] = geocodeEnter(geocodeCache, GEOCODER_MODE, address)]
  /\ UNCHANGED << GEOCODER_MODE, geocodeCache, Others, quota >>

geocodeAnswer(c, answer) ==
  /\ direct[c].pc \in Waiting
  /\ LET after == geocodeResume(direct[c], GEOCODER_MODE, answer)
     IN  /\ direct' = [direct EXCEPT ![c] = after]
         /\ geocodeCache' = cacheOk(geocodeCache, direct[c], after)
  /\ UNCHANGED << GEOCODER_MODE, Others, quota >>

\* The caller takes the result (or catches the error) of a settled invocation.
geocodeSettled(c) ==
  /\ direct[c].pc \in Settled
  /\ direct' = [direct EXCEPT ![c] = Idle]
  /\ UNCHANGED << GEOCODER_MODE, geocodeCache, Others, quota >>

\* An entry of the raw geocode cache expires (ttl) or is evicted (max).
geocodeCacheExpire(key) ==
  /\ CacheHas(geocodeCache, key)
  /\ quota.expiries > 0
  /\ geocodeCache' = CacheDelete(geocodeCache, key)
  /\ Expired
  /\ UNCHANGED << GEOCODER_MODE, direct, Others >>

InitCommon ==
  /\ GEOCODER_MODE \in Modes
  /\ geocodeCache = EmptyCache
  /\ locationGeoCache = EmptyCache
  /\ shopifyLocationsCache = EmptyCache
  /\ quota = FullQuota

InitGeocode ==
  /\ InitCommon
  /\ direct = [c \in {"d1"} |-> Idle]
  /\ DEFAULT_RADIUS_KM = << "1", "0", "0" >>
  /\ req = Idle
  /\ tasks = << >>
  /\ pure = Idle

NextGeocode ==
  \/ \E c \in DOMAIN direct, address \in DirectAddresses : geocodeCall(c, address)
  \/ \E c \in DOMAIN direct : \E answer \in Answers(direct[c]) : geocodeAnswer(c, answer)
  \/ \E c \in DOMAIN direct : geocodeSettled(c)
  \/ \E key \in DOMAIN geocodeCache : geocodeCacheExpire(key)

SpecGeocode == InitGeocode /\ [][NextGeocode]_vars

(***************************************************************************)
(* The shop's location collection on the commerce platform, and the        *)
(* platform's answers.                                                     *)
(***************************************************************************)
Shop == "shop.myshopify.com"

Address(address1, zip) ==
  [address1 |-> address1, address2 |-> << >>, city |-> << >>, province |-> << >>,
   country |-> << >>, zip |-> zip]

\* An active location with a street line and a zip.
LocA == [id |-> "L1", name |-> "A", isActive |-> TRUE, address |-> Address(<< "a" >>, Q1234)]

\* An active location whose address fields are all empty.
LocB == [id |-> "L2", name |-> "B", isActive |-> TRUE, address |-> Address(<< >>, << >>)]

\* An inactive location.
LocC == [id |-> "L3", name |-> "C", isActive |-> FALSE, address |-> Address(<< "c" >>, << >>)]

\* The edges of the collection in the platform's order; edge i has cursor i.
Collection == << LocA, LocC, LocB >>

LocationIds == { Collection[i].id : i \in 1..Len(Collection) }

Min(a, b) == IF a <= b THEN a ELSE b

\* The errors array of a GraphQL response that reports two errors.
GqlErrors == << [message |-> "throttled"], [message |-> "internal"] >>

\* Answers to `locations(first: $first, after: $after)`: the edges that follow
\* the cursor, at most `first` of them, and whether more follow; or a GraphQL
\* error array; or a transport failure.  after = 0 is the null cursor.
PageAnswers(first, after) ==
  { [kind |-> "ok",
     edges |-> [i \in 1..(j - after) |-> [cursor |-> after + i, node |-> Collection[after + i]]],
     hasNextPage |-> j < Len(Collection)] :
       j \in (after + 1)..Min(Len(Collection), after + first) }
  \cup
  { [kind |-> "errors", errors |-> GqlErrors],
    [kind |-> "reject"] }

InventoryItemAnswers ==
  { [kind |-> "ok", id |-> "gid://shopify/InventoryItem/1"],
    [kind |-> "missing"],
    [kind |-> "errors", errors |-> GqlErrors],
    [kind |-> "reject"] }

Level(location, quantities) == [location |-> location, quantities |-> quantities]

Quantity(name, quantity) == [name |-> name, quantity |-> quantity]

\* Answers to the inventoryLevels query: the levels' edges.
LevelsAnswers ==
  { [kind |-> "ok", edges |-> << Level("L1", << Quantity("available", 5) >>) >>],
    [kind |-> "ok", edges |-> << Level("L1", << >>),
                                 Level("L2", << Quantity("available", 5) >>) >>],
    [kind |-> "ok", edges |-> << Level("L1", << Quantity("available", 0) >>) >>],
    [kind |-> "errors", errors |-> GqlErrors],
    [kind |-> "reject"] }

\* Mutant: only the first reported message is carried.
gqlFailureFirstMessage(answer) ==
  IF answer.kind = "errors"
    THEN ShopifyGQLError(<< answer.errors[1].message >>)
    ELSE AxiosError

\* assertNoGqlErrors / a rejected gql.post: the error a GraphQL answer throws.
gqlFailure(answer) ==
  IF answer.kind = "errors"
    THEN ShopifyGQLError([i \in 1..Len(answer.errors) |-> answer.errors[i].message])
    ELSE AxiosError

\* Lines 300-306 of getInventoryByLocation: the Map built from the edges.
RECURSIVE qtyMap(_)
qtyMap(edges) ==
  IF edges = << >> THEN EmptyCache
  ELSE LET e == edges[Len(edges)]
           avail == SelectSeq(e.quantities, LAMBDA q : q.name = "available")
       IN  CacheSet(qtyMap(SubSeq(edges, 1, Len(edges) - 1)), e.location,
                    IF avail # << >> THEN avail[1].quantity ELSE 0)

\* Lines 247-250 of fetchShopifyLocations: the active nodes of a page, in order.
activeNodes(edges) ==
  LET nodes == [i \in 1..Len(edges) |-> edges[i].node]
  IN  SelectSeq(nodes, LAMBDA n : n.isActive)

\* Lines 246-252: the list and the cursor after a page; 0 is the null cursor.
fetchPage(fetch, answer) ==
  [locations |-> fetch.locations \o activeNodes(answer.edges),
   cursor |-> IF answer.edges # << >>
                THEN answer.edges[Len(answer.edges)].cursor
                ELSE 0]

(***************************************************************************)
(* geocodeShopifyLocation(loc).  A task is one invocation: pc is "full" or *)
(* "zip" while it awaits geocode of the composed address or of the zip,    *)
(* and "done" with the GeoPoint g it resolved to.  tried lists the         *)
(* arguments it passed to geocode, live tells whether those invocations    *)
(* issued an outbound request, hit whether locationGeoCache answered.      *)
(***************************************************************************)
RECURSIVE Join(_)
Join(parts) ==
  IF parts = << >> THEN << >>
  ELSE IF Len(parts) = 1 THEN parts[1]
  ELSE parts[1] \o << ",", " " >> \o Join(Tail(parts))

\* [a.address1, ..., a.zip].filter(Boolean).join(", ")
fullAddr(a) ==
  Join(SelectSeq(<< a.address1, a.address2, a.city, a.province, a.country, a.zip >>,
                 LAMBDA part : part # << >>))

\* const fail = { lat: 0, lng: 0, formatted: "Geocode failed" }
fail == GeoPoint(0, 0, "Geocode failed")

TaskDone(g, tried, live, hit) ==
  [pc |-> "done", g |-> g, tried |-> tried, live |-> live, hit |-> hit]

TaskWaiting(pc, frame, tried) ==
  [pc |-> pc, frame |-> frame, tried |-> tried, live |-> TRUE, hit |-> FALSE]

\* Whether a geocode invocation issued an outbound request.
Live(frame) == frame.calls # << >>

\* Lines 325-332: after geocode(a.zip) settled or reached its first await.
afterZip(frame, tried, live) ==
  CASE frame.pc \in Waiting -> TaskWaiting("zip", frame, tried)
    [] frame.pc = "returned" -> TaskDone(frame.val, tried, live \/ Live(frame), FALSE)
    [] OTHER -> TaskDone(fail, tried, live \/ Live(frame), FALSE)

\* Mutant: the zip lookup is made whether or not the location has a zip.
afterFullZipAlways(loc, frame, tried, geoCache, mode) ==
  CASE frame.pc \in Waiting -> TaskWaiting("full", frame, tried)
    [] frame.pc = "returned" -> TaskDone(frame.val, tried, Live(frame), FALSE)
    [] OTHER -> afterZip(geocodeEnter(geoCache, mode, loc.address.zip),
                         Append(tried, loc.address.zip), Live(frame))

\* Lines 319-332: after geocode(fullAddr) settled or reached its first await.
afterFull(loc, frame, tried, geoCache, mode) ==
  CASE frame.pc \in Waiting -> TaskWaiting("full", frame, tried)
    [] frame.pc = "returned" -> TaskDone(frame.val, tried, Live(frame), FALSE)
    [] OTHER ->
         IF loc.address.zip # << >>
           THEN afterZip(geocodeEnter(geoCache, mode, loc.address.zip),
                         Append(tried, loc.address.zip), Live(frame))
           ELSE TaskDone(fail, tried, Live(frame), FALSE)

\* Mutant: a cached sentinel is looked up again.
locationEnterIgnoresSentinel(loc, locCache, geoCache, mode) ==
  IF CacheHas(locCache, loc.id) /\ locCache[loc.id].formatted = "address"
    THEN TaskDone(locCache[loc.id], << >>, FALSE, TRUE)
    ELSE afterFull(loc, geocodeEnter(geoCache, mode, fullAddr(loc.address)),
                   << fullAddr(loc.address) >>, geoCache, mode)

\* Lines 310-319: cache lookup and, on a miss, the call of geocode(fullAddr).
locationEnter(loc, locCache, geoCache, mode) ==
  IF CacheHas(locCache, loc.id)
    THEN TaskDone(locCache[loc.id], << >>, FALSE, TRUE)
    ELSE afterFull(loc, geocodeEnter(geoCache, mode, fullAddr(loc.address)),
                   << fullAddr(loc.address) >>, geoCache, mode)

\* The task after the answer to the request its geocode invocation waits on.
locationResume(loc, task, answer, geoCacheAfter, mode) ==
  LET frame == geocodeResume(task.frame, mode, answer)
  IN  IF task.pc = "full"
        THEN afterFull(loc, frame, task.tried, geoCacheAfter, mode)
        ELSE afterZip(frame, task.tried, TRUE)

\* Mutant: the sentinel of a failed resolution is not stored.
locationStoreSuccessOnly(locCache, loc, before, after) ==
  IF after.pc = "done" /\ ~after.hit /\ (before.pc # "done") /\ after.g.formatted = "address"
    THEN CacheSet(locCache, loc.id, after.g)
    ELSE locCache

\* locationGeoCache.set(key, g | g2 | fail) of a task that ended by a lookup.
locationStore(locCache, loc, before, after) ==
  IF after.pc = "done" /\ ~after.hit /\ (before.pc # "done")
    THEN CacheSet(locCache, loc.id, after.g)
    ELSE locCache

(***************************************************************************)
(* buildPickupResponse.  req is the invocation in progress: pc names the   *)
(* request it awaits ("geocodePin", "locationsPage", "inventoryItem",      *)
(* "inventoryLevels", "fanout") or how it ended; gql lists the GraphQL     *)
(* requests it has issued, live tells whether the pincode's geocode        *)
(* invocation issued an outbound request.  Distances are in hundredths of  *)
(* a kilometre, the precision of Number(distanceKm.toFixed(2)).            *)
(***************************************************************************)
\* haversineKm on the model's coordinates, after toFixed(2), in hundredths of a
\* km: 111.19 km along one degree of the equator or of a meridian, 157.25 km
\* from <<0, 0>> to <<1, 1>>.
haversineKm(a, b) ==
  CASE a = b -> 0
    [] {a, b} = { <<0, 0>>, <<1, 1>> } -> 15725
    [] OTHER -> 11119

\* Mutant: no resolution is taken for the sentinel.
isSentinelNever(g) == FALSE

\* g.lat === 0 && g.lng === 0
isSentinel(g) == g.lat = 0 /\ g.lng = 0

\* Mutant: an absent inventory entry counts as quantity 0.
qtyOfDefaultZero(qtyByLoc, id) ==
  IF CacheHas(qtyByLoc, id) THEN JsNumber(qtyByLoc[id]) ELSE JsNumber(0)

\* const qty = qtyByLoc.has(loc.id) ? qtyByLoc.get(loc.id) : null
qtyOf(qtyByLoc, id) ==
  IF CacheHas(qtyByLoc, id) THEN JsNumber(qtyByLoc[id]) ELSE JsNull

\* const status = qty === null ? "unknown" : qty > 0 ? "instock" : "outofstock"
statusOf(qty) ==
  IF qty = JsNull THEN "unknown" ELSE IF qty.n > 0 THEN "instock" ELSE "outofstock"

\* Lines 371-385: the entry of a location that resolved to g.
enrich(loc, g, pin, qtyByLoc) ==
  [locationId |-> loc.id,
   name |-> loc.name,
   address |-> [fields |-> loc.address, formatted |-> g.formatted],
   coordinates |-> [lat |-> g.lat, lng |-> g.lng],
   distanceKm |-> haversineKm(<< pin.lat, pin.lng >>, << g.lat, g.lng >>),
   available |-> qtyOf(qtyByLoc, loc.id),
   status |-> statusOf(qtyOf(qtyByLoc, loc.id))]

\* Array.prototype.sort((a, b) => a.distanceKm - b.distanceKm): a stable sort.
RECURSIVE insertByDistance(_, _)
insertByDistance(x, sorted) ==
  IF sorted = << >> THEN << x >>
  ELSE IF sorted[Len(sorted)].distanceKm <= x.distanceKm THEN Append(sorted, x)
  ELSE Append(insertByDistance(x, SubSeq(sorted, 1, Len(sorted) - 1)), sorted[Len(sorted)])

\* Mutant: the lists are left in the order of the location list.
sortByDistanceNone(xs) == xs

RECURSIVE sortByDistance(_)
sortByDistance(xs) ==
  IF xs = << >> THEN << >>
  ELSE insertByDistance(xs[Len(xs)], sortByDistance(SubSeq(xs, 1, Len(xs) - 1)))

\* Mutant: locations beyond the radius are dropped from the result.
outOfRadiusDropped(enriched, RADIUS) == << >>

\* enriched.filter((x) => x.distanceKm <= RADIUS).sort(...)
inRadiusOf(enriched, RADIUS) ==
  sortByDistance(SelectSeq(enriched, LAMBDA x : x.distanceKm <= RADIUS * 100))

\* enriched.filter((x) => x.distanceKm > RADIUS).sort(...)
outOfRadiusOf(enriched, RADIUS) ==
  sortByDistance(SelectSeq(enriched, LAMBDA x : x.distanceKm > RADIUS * 100))

\* Lines 366-407: the PickupResult once every task of the fan-out is done.
assemble(r, done) ==
  LET pin == r.pin
      kept == SelectSeq(r.locations, LAMBDA loc : ~isSentinel(done[loc.id].g))
      enriched == [i \in 1..Len(kept) |->
                     enrich(kept[i], done[kept[i].id].g, pin, r.qtyByLoc)]
  IN  [input |-> [pincode |-> r.in.pincode,
                  geocoded |-> [lat |-> pin.lat, lng |-> pin.lng, address |-> pin.formatted],
                  radiusKm |-> r.RADIUS,
                  variantId |-> IF r.in.variantId = JsUndefined THEN JsNull
                                ELSE r.in.variantId,
                  inventoryItemGid |-> r.invItemGid],
       inRadius |-> inRadiusOf(enriched, r.RADIUS),
       outOfRadius |-> outOfRadiusOf(enriched, r.RADIUS)]

\* The pincode's GeoPoint before geocode has returned it.
Unresolved == GeoPoint(0, 0, "undefined")

NewReq(in, RADIUS, frame) ==
  [pc |-> "geocodePin", in |-> in, RADIUS |-> RADIUS, frame |-> frame,
   pin |-> Unresolved, live |-> Live(frame),
   fetch |-> [locations |-> << >>, cursor |-> 0], locations |-> << >>,
   invItemGid |-> "null", qtyByLoc |-> EmptyCache, gql |-> << >>]

ReqReturned(r, result) ==
  [pc |-> "returned", in |-> r.in, RADIUS |-> r.RADIUS, pin |-> r.pin, live |-> r.live,
   locations |-> r.locations, invItemGid |-> r.invItemGid, qtyByLoc |-> r.qtyByLoc,
   gql |-> r.gql, result |-> result]

ReqThrown(in, live, gql, err) ==
  [pc |-> "thrown", in |-> in, live |-> live, gql |-> gql, err |-> err]

\* What a step leaves behind: the invocation, its tasks and the two caches the
\* code after the pincode lookup writes.
After(r, t, locCache, listCache) ==
  [req |-> r, tasks |-> t, locCache |-> locCache, listCache |-> listCache]

\* Lines 366-369: locations.map starts every task up to its first await.
enterFanout(r, geoCache, locCache, listCache, mode) ==
  LET locs == r.locations
      ids == { locs[i].id : i \in 1..Len(locs) }
      locOf(id) == CHOOSE loc \in { locs[i] : i \in 1..Len(locs) } : loc.id = id
      t == [id \in ids |-> locationEnter(locOf(id), locCache, geoCache, mode)]
      stored == { id \in ids : t[id].pc = "done" /\ ~t[id].hit }
  IN  After([r EXCEPT !.pc = "fanout"], t,
            [k \in DOMAIN locCache \cup stored |->
               IF k \in stored THEN t[k].g ELSE locCache[k]],
            listCache)

\* Mutant: the inventory lookups are skipped.
afterLocationsNoInventory(r, geoCache, locCache, listCache, mode) ==
  enterFanout(r, geoCache, locCache, listCache, mode)

\* Lines 359-364: the inventory lookups when a variant is given.
afterLocations(r, geoCache, locCache, listCache, mode) ==
  IF Truthy(r.in.variantId)
    THEN After([r EXCEPT !.pc = "inventoryItem", !.gql = Append(@, "inventoryItem")],
               << >>, locCache, listCache)
    ELSE enterFanout(r, geoCache, locCache, listCache, mode)

\* Line 356, then lines 217-244 of fetchShopifyLocations: the pincode's point,
\* the cache lookup, or the first page request.
afterPin(q, geoCache, locCache, listCache, mode) ==
  LET r == [q EXCEPT !.pin = q.frame.val, !.live = Live(q.frame), !.frame = Idle]
  IN
  IF CacheHas(listCache, Shop)
    THEN afterLocations([r EXCEPT !.locations = listCache[Shop]],
                        geoCache, locCache, listCache, mode)
    ELSE After([r EXCEPT !.pc = "locationsPage",
                         !.fetch = [locations |-> << >>, cursor |-> 0],
                         !.gql = Append(@, "locations")],
               << >>, locCache, listCache)

Commit(after) ==
  /\ req' = after.req
  /\ tasks' = after.tasks
  /\ locationGeoCache' = after.locCache
  /\ shopifyLocationsCache' = after.listCache

Config == << GEOCODER_MODE, DEFAULT_RADIUS_KM >>

\* Lines 336-356: validation, radius, and the call of geocode(String(pincode)).
buildPickupResponseCall(pincode, variantId, radiusKm) ==
  /\ req.pc = "idle"
  /\ quota.requests > 0
  /\ quota' = [quota EXCEPT !.requests = @ - 1]
  /\ LET in == [pincode |-> pincode, variantId |-> variantId, radiusKm |-> radiusKm]
         v == validatePincode(pincode)
         frame == geocodeEnter(geocodeCache, GEOCODER_MODE, StringOf(pincode))
         r == NewReq(in, effectiveRadius(radiusKm, DEFAULT_RADIUS_KM), frame)
     IN  IF v.name # "ok"
           THEN Commit(After(ReqThrown(in, FALSE, << >>, v), << >>,
                             locationGeoCache, shopifyLocationsCache))
           ELSE IF frame.pc = "returned"
             THEN Commit(afterPin(r, geocodeCache, locationGeoCache,
                                  shopifyLocationsCache, GEOCODER_MODE))
             ELSE Commit(After(r, << >>, locationGeoCache, shopifyLocationsCache))
  /\ UNCHANGED << Config, geocodeCache, direct, pure >>

\* The answer to the request the pincode's geocode invocation waits on.
geocodePinAnswer(answer) ==
  /\ req.pc = "geocodePin"
  /\ LET frame == geocodeResume(req.frame, GEOCODER_MODE, answer)
         geoCache == cacheOk(geocodeCache, req.frame, frame)
         r == [req EXCEPT !.frame = frame]
     IN  /\ geocodeCache' = geoCache
         /\ CASE frame.pc = "returned" ->
                   Commit(afterPin(r, geoCache, locationGeoCache,
                                   shopifyLocationsCache, GEOCODER_MODE))
              [] frame.pc = "thrown" ->
                   Commit(After(ReqThrown(req.in, TRUE, << >>, frame.err), << >>,
                                locationGeoCache, shopifyLocationsCache))
              [] OTHER -> Commit(After(r, << >>, locationGeoCache, shopifyLocationsCache))
  /\ UNCHANGED << Config, quota, direct, pure >>

\* Lines 243-256: one page of the location collection arrives.
locationsPageAnswer(answer) ==
  /\ req.pc = "locationsPage"
  /\ IF answer.kind # "ok"
       THEN Commit(After(ReqThrown(req.in, req.live, req.gql, gqlFailure(answer)),
                         << >>, locationGeoCache, shopifyLocationsCache))
       ELSE LET locations == fetchPage(req.fetch, answer).locations
                cursor == fetchPage(req.fetch, answer).cursor
            IN  IF answer.hasNextPage
                  THEN Commit(After([req EXCEPT
                                       !.fetch = [locations |-> locations, cursor |-> cursor],
                                       !.gql = Append(@, "locations")],
                                    << >>, locationGeoCache, shopifyLocationsCache))
                  ELSE Commit(afterLocations(
                                [req EXCEPT !.locations = locations,
                                            !.fetch = [locations |-> locations,
                                                       cursor |-> cursor]],
                                geocodeCache, locationGeoCache,
                                CacheSet(shopifyLocationsCache, Shop, locations),
                                GEOCODER_MODE))
  /\ UNCHANGED << Config, quota, geocodeCache, direct, pure >>

\* Lines 269-278 of getInventoryItemIdForVariant, then line 297.
inventoryItemAnswer(answer) ==
  /\ req.pc = "inventoryItem"
  /\ req' =
       CASE answer.kind = "ok" ->
              [req EXCEPT !.pc = "inventoryLevels", !.invItemGid = answer.id,
                          !.gql = Append(@, "inventoryLevels")]
         [] answer.kind = "missing" ->
              ReqThrown(req.in, req.live, req.gql, InventoryItemMissingError)
         [] OTHER -> ReqThrown(req.in, req.live, req.gql, gqlFailure(answer))
  /\ UNCHANGED << Config, quota, geocodeCache, locationGeoCache, shopifyLocationsCache,
                  tasks, direct, pure >>

\* Lines 297-306 of getInventoryByLocation, then the fan-out.
inventoryLevelsAnswer(answer) ==
  /\ req.pc = "inventoryLevels"
  /\ IF answer.kind # "ok"
       THEN Commit(After(ReqThrown(req.in, req.live, req.gql, gqlFailure(answer)),
                         << >>, locationGeoCache, shopifyLocationsCache))
       ELSE Commit(enterFanout([req EXCEPT !.qtyByLoc = qtyMap(answer.edges)],
                               geocodeCache, locationGeoCache, shopifyLocationsCache,
                               GEOCODER_MODE))
  /\ UNCHANGED << Config, quota, geocodeCache, direct, pure >>

\* The answer to the request a location's geocode invocation waits on.
locationAnswer(id, answer) ==
  /\ req.pc = "fanout"
  /\ tasks[id].pc \in {"full", "zip"}
  /\ LET loc == CHOOSE l \in { req.locations[i] : i \in 1..Len(req.locations) } : l.id = id
         frame == geocodeResume(tasks[id].frame, GEOCODER_MODE, answer)
         geoCache == cacheOk(geocodeCache, tasks[id].frame, frame)
         task == locationResume(loc, tasks[id], answer, geoCache, GEOCODER_MODE)
     IN  /\ geocodeCache' = geoCache
         /\ tasks' = [tasks EXCEPT ![id] = task]
         /\ locationGeoCache' = locationStore(locationGeoCache, loc, tasks[id], task)
  /\ UNCHANGED << Config, quota, shopifyLocationsCache, req, direct, pure >>

\* Promise.all resolved: lines 388-407.
buildPickupResponseAssemble ==
  /\ req.pc = "fanout"
  /\ \A id \in DOMAIN tasks : tasks[id].pc = "done"
  /\ req' = ReqReturned(req, assemble(req, tasks))
  /\ UNCHANGED << Config, quota, geocodeCache, locationGeoCache, shopifyLocationsCache,
                  tasks, direct, pure >>

\* The route handler takes the result or the error (api.pickup.jsx).
buildPickupResponseSettled ==
  /\ req.pc \in Settled
  /\ req' = Idle
  /\ tasks' = << >>
  /\ UNCHANGED << Config, quota, geocodeCache, locationGeoCache, shopifyLocationsCache,
                  direct, pure >>

\* An entry of the location-coordinate cache expires or is evicted.
locationGeoCacheExpire(key) ==
  /\ CacheHas(locationGeoCache, key)
  /\ quota.expiries > 0
  /\ locationGeoCache' = CacheDelete(locationGeoCache, key)
  /\ Expired
  /\ UNCHANGED << Config, geocodeCache, shopifyLocationsCache, req, tasks, direct, pure >>

\* The entry of the location-list cache expires or is evicted.
shopifyLocationsCacheExpire(key) ==
  /\ CacheHas(shopifyLocationsCache, key)
  /\ quota.expiries > 0
  /\ shopifyLocationsCache' = CacheDelete(shopifyLocationsCache, key)
  /\ Expired
  /\ UNCHANGED << Config, geocodeCache, locationGeoCache, req, tasks, direct, pure >>

\* Inputs of the resolver.
PickupPincodes == { JsUndefined, JsString(Q12345), JsString(Q1234) }

PickupVariants == { JsUndefined, JsString(<< "v" >>) }

PickupRadii == { JsUndefined, JsNumber(150) }

InitPickup ==
  /\ InitCommon
  /\ DEFAULT_RADIUS_KM = << "1", "0", "0" >>
  /\ direct = [c \in {"d1"} |-> Idle]
  /\ req = Idle
  /\ tasks = << >>
  /\ pure = Idle

NextPickup ==
  \/ \E pincode \in PickupPincodes, variantId \in PickupVariants, radiusKm \in PickupRadii :
       buildPickupResponseCall(pincode, variantId, radiusKm)
  \/ /\ req.pc = "geocodePin"
     /\ \E answer \in Answers(req.frame) : geocodePinAnswer(answer)
  \/ /\ req.pc = "locationsPage"
     /\ \E answer \in PageAnswers(100, req.fetch.cursor) : locationsPageAnswer(answer)
  \/ \E answer \in InventoryItemAnswers : inventoryItemAnswer(answer)
  \/ \E answer \in LevelsAnswers : inventoryLevelsAnswer(answer)
  \/ \E id \in { t \in DOMAIN tasks : tasks[t].pc # "done" } :
       \E answer \in Answers(tasks[id].frame) : locationAnswer(id, answer)
  \/ buildPickupResponseAssemble
  \/ buildPickupResponseSettled
  \/ \E key \in DOMAIN geocodeCache : geocodeCacheExpire(key)
  \/ \E key \in DOMAIN locationGeoCache : locationGeoCacheExpire(key)
  \/ \E key \in DOMAIN shopifyLocationsCache : shopifyLocationsCacheExpire(key)

SpecPickup == InitPickup /\ [][NextPickup]_vars

(***************************************************************************)
(* A direct caller of the exported fetchShopifyLocations(gql, shop), as    *)
(* the loader of api.locations.jsx is.  A frame is one invocation: pc is   *)
(* "page" while it awaits a page, "returned" with val or "thrown" with     *)
(* err; requests lists the `after` cursor of every page request it has     *)
(* issued (0 is null) and last is the response it received last.           *)
(***************************************************************************)
MaxPages == 4

\* A page without edges that reports that more pages follow.
EmptyPage == [kind |-> "ok", edges |-> << >>, hasNextPage |-> TRUE]

NoAnswer == [kind |-> "none"]

\* Lines 218-244: cache lookup, or the first page request.
fetchEnter(listCache, shop) ==
  IF CacheHas(listCache, shop)
    THEN [pc |-> "returned", shop |-> shop, locations |-> listCache[shop], cursor |-> 0,
          requests |-> << >>, last |-> NoAnswer, val |-> listCache[shop]]
    ELSE [pc |-> "page", shop |-> shop, locations |-> << >>, cursor |-> 0,
          requests |-> << 0 >>, last |-> NoAnswer]

\* Lines 244-256 from the arrival of a page to the next request, return or throw.
fetchResume(frame, answer) ==
  IF answer.kind # "ok"
    THEN [pc |-> "thrown", shop |-> frame.shop, locations |-> frame.locations,
          cursor |-> frame.cursor, requests |-> frame.requests, last |-> answer,
          err |-> gqlFailure(answer)]
    ELSE LET page == fetchPage(frame, answer)
         IN  IF answer.hasNextPage
               THEN [pc |-> "page", shop |-> frame.shop, locations |-> page.locations,
                     cursor |-> page.cursor,
                     requests |-> Append(frame.requests, page.cursor), last |-> answer]
               ELSE [pc |-> "returned", shop |-> frame.shop, locations |-> page.locations,
                     cursor |-> page.cursor, requests |-> frame.requests, last |-> answer,
                     val |-> page.locations]

\* Mutant: the list collected so far is cached when a page request fails.
listStoreAlsoPartial(cache, before, after) ==
  IF before.pc = "page" /\ after.pc \in Settled
    THEN CacheSet(cache, after.shop, after.locations)
    ELSE cache

\* shopifyLocationsCache.set(cacheKey, locations) of a fetch that completed.
listStore(cache, before, after) ==
  IF before.pc = "page" /\ after.pc = "returned"
    THEN CacheSet(cache, after.shop, after.val)
    ELSE cache

FetchOthers == << Config, quota, geocodeCache, locationGeoCache, req, tasks, pure >>

fetchCall(c, shop) ==
  /\ direct[c].pc = "idle"
  /\ direct' = [direct EXCEPT ![c] = fetchEnter(shopifyLocationsCache, shop)]
  /\ UNCHANGED << FetchOthers, shopifyLocationsCache >>

\* A page arrives; the platform is asked for at most MaxPages pages per call.
fetchAnswer(c, answer) ==
  /\ direct[c].pc = "page"
  /\ (answer.kind = "ok" /\ answer.hasNextPage) => Len(direct[c].requests) < MaxPages
  /\ LET after == fetchResume(direct[c], answer)
     IN  /\ direct' = [direct EXCEPT ![c] = after]
         /\ shopifyLocationsCache' = listStore(shopifyLocationsCache, direct[c], after)
  /\ UNCHANGED FetchOthers

\* The loader takes the list or the error.
fetchSettled(c) ==
  /\ direct[c].pc \in Settled
  /\ direct' = [direct EXCEPT ![c] = Idle]
  /\ UNCHANGED << FetchOthers, shopifyLocationsCache >>

InitFetch ==
  /\ InitCommon
  /\ DEFAULT_RADIUS_KM = << "1", "0", "0" >>
  /\ direct = [c \in {"f1"} |-> Idle]
  /\ req = Idle
  /\ tasks = << >>
  /\ pure = Idle

NextFetch ==
  \/ \E c \in DOMAIN direct : fetchCall(c, Shop)
  \/ \E c \in { d \in DOMAIN direct : direct[d].pc = "page" } :
       \E answer \in PageAnswers(100, direct[c].cursor) \cup {EmptyPage} :
         fetchAnswer(c, answer)
  \/ \E c \in DOMAIN direct : fetchSettled(c)
  \/ \E key \in DOMAIN shopifyLocationsCache : shopifyLocationsCacheExpire(key)

SpecFetch == InitFetch /\ [][NextFetch]_vars

(***************************************************************************)
(* Claims about geocode (checked under SpecGeocode).                       *)
(***************************************************************************)
AllDigits(q) == \A i \in 1..Len(q) : q[i] \in Digits

FourOrSixDigits(q) == Len(q) \in {4, 6} /\ AllDigits(q)

\* The strategies of auto mode for a trimmed query, in their fixed order.
AutoStrategies(q) ==
  << "primary" >> \o (IF FourOrSixDigits(q) THEN << "structured" >> ELSE << >>)
                  \o << "freeform" >>

\* The strategies a mode permits for a trimmed query.
PermittedStrategies(mode, q) ==
  IF mode = "osm" THEN Tail(AutoStrategies(q)) ELSE AutoStrategies(q)

\* C1: in auto mode the requests a geocode invocation has issued are always a
\* prefix of primary, structured (only for a 4- or 6-digit trimmed query),
\* freeform; a match is always the answer to the last request issued, the
\* invocation returns that match's point, and no request follows a match.
C1_AutoOrderShortCircuit ==
  GEOCODER_MODE = "auto" =>
    \A c \in DOMAIN direct :
      direct[c].pc # "idle" =>
        LET f == direct[c]
            order == AutoStrategies(Trim(f.arg))
            n == Len(f.calls)
        IN  /\ n <= Len(order)
            /\ f.calls = SubSeq(order, 1, n)
            /\ \A i \in 1..Len(f.outs) :
                 f.outs[i].match =>
                   i = n /\ f.pc = "returned" /\ f.val = f.outs[i].point
            /\ (f.pc = "returned" /\ n > 0) => (Len(f.outs) = n /\ f.outs[n].match)
            /\ f.pc \in Waiting => (Len(f.outs) = n - 1 /\ f.calls[n] = f.pc)
            /\ f.pc = "thrown" => (n = Len(order) /\ Len(f.outs) = n)

\* C1 witness: auto mode, the primary provider missed a 4-digit query and the
\* structured search matched; geocode returned without a freeform request.
C1_Witness ==
  /\ GEOCODER_MODE = "auto"
  /\ \E c \in DOMAIN direct :
       /\ direct[c].pc = "returned"
       /\ direct[c].calls = << "primary", "structured" >>
       /\ ~direct[c].outs[1].match
       /\ direct[c].outs[2].match

\* C2 (as claimed): in primary-only mode every answer of the primary provider
\* that is no match makes geocode throw GeocodeProviderError carrying the
\* provider's status, with no request to the secondary provider and no write
\* to the raw geocode cache.
C2_PrimaryOnlyFailure ==
  [][ \A c \in DOMAIN direct :
        ( /\ GEOCODER_MODE = "google"
          /\ direct[c].pc = "primary"
          /\ direct'[c] # direct[c]
          /\ direct'[c].pc # "returned" )
        => /\ direct'[c].pc = "thrown"
           /\ direct'[c].calls = << "primary" >>
           /\ geocodeCache' = geocodeCache
           /\ direct'[c].err.class = "GeocodeProviderError"
           /\ direct'[c].err.meta.provider = "google"
           /\ direct'[c].err.meta.reason[1] = "status=" ]_vars

\* C3: in secondary-only mode the primary provider is never asked; a 4- or
\* 6-digit query that nothing matches ends after exactly one structured and
\* then one freeform request with GeocodeNoResult carrying the query; in auto
\* and secondary-only mode GeocodeNoResult is thrown only when every permitted
\* strategy has been asked once and none matched.
C3_SecondaryOnlyExhausts ==
  \A c \in DOMAIN direct :
    direct[c].pc # "idle" =>
      LET f == direct[c]
          q == Trim(f.arg)
          asked == { f.calls[i] : i \in 1..Len(f.calls) }
      IN  /\ GEOCODER_MODE = "osm" => "primary" \notin asked
          /\ (GEOCODER_MODE = "osm" /\ f.pc = "thrown" /\ FourOrSixDigits(q)) =>
               /\ f.calls = << "structured", "freeform" >>
               /\ f.err.class = "GeocodeNoResultError"
               /\ f.err.meta.query = q
               /\ FourOrSixDigits(f.arg) => f.err.meta.query = f.arg
          /\ (GEOCODER_MODE \in {"auto", "osm"} /\ f.pc = "thrown") =>
               /\ f.err.class = "GeocodeNoResultError"
               /\ f.err.status = 422
               /\ f.calls = PermittedStrategies(GEOCODER_MODE, q)
               /\ Len(f.outs) = Len(f.calls)
               /\ \A i \in 1..Len(f.outs) : ~f.outs[i].match

\* C3 witness: secondary-only mode, a 6-digit query, both searches missed.
C3_Witness ==
  /\ GEOCODER_MODE = "osm"
  /\ \E c \in DOMAIN direct :
       /\ direct[c].pc = "thrown"
       /\ direct[c].arg = Q123456
       /\ direct[c].calls = << "structured", "freeform" >>

\* C4: a geocode call whose trimmed query has an entry in the raw geocode
\* cache returns that entry's value at once, issues no request and leaves the
\* cache as it is, in every mode.
C4_CacheHitNoCall ==
  [][ \A c \in DOMAIN direct :
        ( /\ direct[c].pc = "idle"
          /\ direct'[c].pc # "idle"
          /\ Trim(direct'[c].arg) \in DOMAIN geocodeCache )
        => /\ direct'[c].pc = "returned"
           /\ direct'[c].val = geocodeCache[Trim(direct'[c].arg)]
           /\ direct'[c].calls = << >>
           /\ geocodeCache' = geocodeCache ]_vars

\* C4 witness: a query padded with whitespace was answered from the cache
\* entry of its trimmed form, with no request issued.
C4_Witness ==
  \E c \in DOMAIN direct :
    /\ direct[c].pc = "returned"
    /\ direct[c].arg = Q1234Padded
    /\ direct[c].calls = << >>
    /\ Q1234 \in DOMAIN geocodeCache
    /\ direct[c].val = geocodeCache[Q1234]

(***************************************************************************)
(* The input validation and the radius resolution of buildPickupResponse   *)
(* applied on their own, over every short string.                          *)
(***************************************************************************)
MaxPincodeLen == 7

Alphabet == { " ", "1", "a" }

StringsUpTo(n) == UNION { [1..k -> Alphabet] : k \in 0..n }

PincodeValues ==
  { JsUndefined, JsNull }
  \cup { JsNumber(n) : n \in {0, 1234, 12345, 123456} }
  \cup { JsString(str) : str \in StringsUpTo(MaxPincodeLen) }

RadiusValues ==
  { JsUndefined, JsNull, JsNumber(0), JsNumber(25), JsNumber(150),
    JsString(<< >>), JsString(<< " " >>), JsString(<< "5", "0" >>),
    JsString(<< "a", "b" >>) }

\* Values of the environment variable DEFAULT_RADIUS_KM; "100" when unset.
DefaultRadiusValues ==
  { << "1", "0", "0" >>, << "2", "5" >>, << "a", "b" >> }

InitHelpers ==
  /\ GEOCODER_MODE = "auto"
  /\ DEFAULT_RADIUS_KM \in DefaultRadiusValues
  /\ geocodeCache = EmptyCache
  /\ locationGeoCache = EmptyCache
  /\ shopifyLocationsCache = EmptyCache
  /\ quota = FullQuota
  /\ direct = [c \in {"d1"} |-> Idle]
  /\ req = Idle
  /\ tasks = << >>
  /\ pure \in { [pc |-> "validate", pincode |-> v] : v \in PincodeValues }
              \cup { [pc |-> "radius", radiusKm |-> r] : r \in RadiusValues }

applyValidatePincode ==
  /\ pure.pc = "validate"
  /\ pure' = [pc |-> "validated", pincode |-> pure.pincode,
              res |-> validatePincode(pure.pincode)]
  /\ UNCHANGED << GEOCODER_MODE, DEFAULT_RADIUS_KM, geocodeCache, locationGeoCache,
                  shopifyLocationsCache, direct, req, tasks, quota >>

applyEffectiveRadius ==
  /\ pure.pc = "radius"
  /\ pure' = [pc |-> "resolved", radiusKm |-> pure.radiusKm,
              RADIUS |-> effectiveRadius(pure.radiusKm, DEFAULT_RADIUS_KM)]
  /\ UNCHANGED << GEOCODER_MODE, DEFAULT_RADIUS_KM, geocodeCache, locationGeoCache,
                  shopifyLocationsCache, direct, req, tasks, quota >>

NextHelpers == applyValidatePincode \/ applyEffectiveRadius

SpecHelpers == InitHelpers /\ [][NextHelpers]_vars

\* The pincode is present and its trimmed text is exactly 4 or 6 digits.
WellFormedPincode(v) ==
  /\ v.t \in {"string", "number"}
  /\ FourOrSixDigits(Trim(StringOf(v)))

\* C6 (as claimed): validation passes exactly for a present pincode of 4 or 6
\* digits after trimming, and every other value fails with InvalidPincode
\* (status 400).
C6_InvalidPincodeForAllOthers ==
  pure.pc = "validated" =>
    /\ pure.res.name = "ok" <=> WellFormedPincode(pure.pincode)
    /\ pure.res.name # "ok" =>
         (pure.res.class = "InvalidPincodeError" /\ pure.res.status = 400)

\* C6 (amended): validation passes exactly for a present pincode of 4 or 6
\* digits after trimming; an absent or empty (falsy) pincode fails with the
\* generic "pincode is required" error, code pincode_required, status 400, and
\* every other value fails with InvalidPincodeError, code invalid_pincode,
\* status 400, carrying the pincode as passed.
C6_ValidationOutcome ==
  pure.pc = "validated" =>
    LET v == pure.pincode
        falsy == v.t \in {"undefined", "null"} \/ v = JsString(<< >>) \/ v = JsNumber(0)
    IN  /\ pure.res.name = "ok" <=> WellFormedPincode(v)
        /\ falsy => (pure.res.code = "pincode_required" /\ pure.res.status = 400)
        /\ (~falsy /\ ~WellFormedPincode(v)) =>
             /\ pure.res.class = "InvalidPincodeError"
             /\ pure.res.code = "invalid_pincode"
             /\ pure.res.status = 400
             /\ pure.res.meta.pincode = v

\* C6 witness: a 6-digit pincode padded with a blank has passed validation.
C6_Witness ==
  /\ pure.pc = "validated"
  /\ pure.pincode = JsString(<< " ", "1", "1", "1", "1", "1", "1" >>)
  /\ pure.res.name = "ok"

\* A radius the caller supplies as a numeric value: a number, or a string of
\* decimal digits.
SuppliedNumeric(r) ==
  \/ r.t = "number"
  \/ r.t = "string" /\ Trim(r.s) # << >> /\ AllDigits(Trim(r.s))

\* C9 (as claimed): the effective radius is the supplied radiusKm when that is
\* numeric; otherwise (omitted, null, not numeric) the configured default, and
\* 100 when the configured default is not numeric.
C9_EffectiveRadius ==
  pure.pc = "resolved" =>
    LET r == pure.radiusKm
        env == Trim(DEFAULT_RADIUS_KM)
        configured == IF env # << >> /\ AllDigits(env) THEN DigitsToNat(env) ELSE 100
    IN  pure.RADIUS =
          IF r.t = "number" THEN r.n
          ELSE IF SuppliedNumeric(r) THEN DigitsToNat(Trim(r.s))
          ELSE configured

(***************************************************************************)
(* Claims about buildPickupResponse and the caches (checked under          *)
(* SpecPickup).                                                            *)
(***************************************************************************)
\* The active locations of the shop, in the platform's order.
ActiveLocations == SelectSeq(Collection, LAMBDA n : n.isActive)

\* A point a provider answered with.
ProviderPoint(g) == << g.lat, g.lng >> \in Coords /\ g.formatted = "address"

\* How many entries of a result list belong to a location.
Occurrences(list, id) == Cardinality({ i \in 1..Len(list) : list[i].locationId = id })

\* C5 (as claimed): no cache holds an entry that stands for a failed
\* geocoding or a failed fetch.
C5_NoFailureCached ==
  /\ \A k \in DOMAIN geocodeCache : ProviderPoint(geocodeCache[k])
  /\ \A k \in DOMAIN locationGeoCache : ProviderPoint(locationGeoCache[k])
  /\ \A k \in DOMAIN shopifyLocationsCache : shopifyLocationsCache[k] = ActiveLocations

\* C5 (amended): the raw geocode cache holds only points a provider answered
\* with and the location-list cache only the complete list of a fetch that
\* succeeded; a step in which the pincode lookup or a page fetch fails writes
\* to neither.  The location-coordinate cache holds, per location, a
\* provider's point or the failure sentinel, and the sentinel is written
\* exactly by the step in which the location's last geocode attempt fails.
C5_OnlySentinelFailureCached ==
  [][ /\ \A k \in DOMAIN geocodeCache' : ProviderPoint(geocodeCache'[k])
      /\ \A k \in DOMAIN shopifyLocationsCache' :
           shopifyLocationsCache'[k] = ActiveLocations
      /\ \A k \in DOMAIN locationGeoCache' :
           ProviderPoint(locationGeoCache'[k]) \/ locationGeoCache'[k] = fail
      /\ (req.pc \in {"geocodePin", "locationsPage"} /\ req'.pc = "thrown") =>
           ( /\ geocodeCache' = geocodeCache
             /\ shopifyLocationsCache' = shopifyLocationsCache
             /\ locationGeoCache' = locationGeoCache )
      /\ \A id \in DOMAIN tasks' :
           ( /\ tasks'[id].pc = "done" /\ ~tasks'[id].hit
             /\ (id \notin DOMAIN tasks \/ tasks[id].pc # "done") )
           => /\ locationGeoCache'[id] = tasks'[id].g
              /\ tasks'[id].g = fail => tasks'[id].live
      /\ \A k \in DOMAIN locationGeoCache' :
           ( /\ locationGeoCache'[k] = fail
             /\ (k \notin DOMAIN locationGeoCache \/ locationGeoCache[k] # fail) )
           => (k \in DOMAIN tasks' /\ tasks'[k].g = fail /\ ~tasks'[k].hit) ]_vars

\* C5 witness: a request was answered from the sentinel cached for a location
\* while the raw geocode cache and the location-list cache hold results.
C5_Witness ==
  /\ req.pc = "returned"
  /\ \E id \in DOMAIN tasks :
       /\ tasks[id].hit /\ tasks[id].g = fail
       /\ id \in DOMAIN locationGeoCache /\ locationGeoCache[id] = fail
  /\ geocodeCache # EmptyCache
  /\ Shop \in DOMAIN shopifyLocationsCache

\* C7: in a returned result every active location of the shop whose final
\* coordinates are not the sentinel's (0, 0) has exactly one entry in inRadius
\* and outOfRadius together, and that entry is in inRadius exactly when its
\* distance is at most the effective radius.
C7_StrictPartition ==
  req.pc = "returned" =>
    \A i \in 1..Len(ActiveLocations) :
      LET loc == ActiveLocations[i]
          g == tasks[loc.id].g
          d == haversineKm(<< req.pin.lat, req.pin.lng >>, << g.lat, g.lng >>)
          ins == Occurrences(req.result.inRadius, loc.id)
          outs == Occurrences(req.result.outOfRadius, loc.id)
      IN  << g.lat, g.lng >> # << 0, 0 >> =>
            /\ ins + outs = 1
            /\ ins = 1 <=> d <= req.RADIUS * 100
            /\ \A j \in 1..Len(req.result.inRadius) :
                 req.result.inRadius[j].locationId = loc.id =>
                   req.result.inRadius[j].distanceKm = d
            /\ \A j \in 1..Len(req.result.outOfRadius) :
                 req.result.outOfRadius[j].locationId = loc.id =>
                   req.result.outOfRadius[j].distanceKm = d

\* C7 witness: a result with one location within the radius and one beyond.
C7_Witness ==
  /\ req.pc = "returned"
  /\ Len(req.result.inRadius) = 1
  /\ Len(req.result.outOfRadius) = 1

\* C8: once the fan-out over the locations has begun the call no longer
\* fails; in the result it returns, a location whose geocoding failed has no
\* entry in either list, and every other location with coordinates other than
\* (0, 0) has the entry computed from its own resolution alone.
C8_LocationFailureTolerated ==
  [][ req.pc = "fanout" =>
        /\ req'.pc \in {"fanout", "returned"}
        /\ req'.pc = "returned" =>
             \A i \in 1..Len(req.locations) :
               LET loc == req.locations[i]
                   g == tasks[loc.id].g
                   both == req'.result.inRadius \o req'.result.outOfRadius
               IN  IF g = fail
                     THEN Occurrences(both, loc.id) = 0
                     ELSE << g.lat, g.lng >> # << 0, 0 >> =>
                            \E j \in 1..Len(both) :
                              both[j] = enrich(loc, g, req.pin, req.qtyByLoc) ]_vars

\* C8 witness: a result was returned although the geocoding of one location
\* failed in this request, and it lists the other location.
C8_Witness ==
  /\ req.pc = "returned"
  /\ \E id \in DOMAIN tasks : tasks[id].g = fail /\ ~tasks[id].hit /\ tasks[id].live
  /\ Len(req.result.inRadius) + Len(req.result.outOfRadius) = 1

\* C10: in a returned result, without a variant id every entry has available
\* null and status "unknown"; with one, an entry is "unknown" with available
\* null exactly when the inventory map has no entry for its location,
\* "instock" exactly when the mapped quantity is positive and "outofstock"
\* otherwise, with available the mapped quantity.
C10_InventoryStatus ==
  req.pc = "returned" =>
    LET both == req.result.inRadius \o req.result.outOfRadius
    IN  \A j \in 1..Len(both) :
          LET e == both[j]
              has == e.locationId \in DOMAIN req.qtyByLoc
          IN  IF req.in.variantId = JsUndefined
                THEN e.available = JsNull /\ e.status = "unknown"
                ELSE /\ e.status = "unknown" <=> ~has
                     /\ ~has => e.available = JsNull
                     /\ has => e.available = JsNumber(req.qtyByLoc[e.locationId])
                     /\ e.status = "instock" <=>
                          (has /\ req.qtyByLoc[e.locationId] > 0)
                     /\ e.status = "outofstock" <=>
                          (has /\ req.qtyByLoc[e.locationId] <= 0)

\* C10 witness: with a variant id, one entry is in stock with 5 available and
\* another, absent from the inventory map, is unknown.
C10_Witness ==
  /\ req.pc = "returned"
  /\ req.in.variantId # JsUndefined
  /\ \E e \in { req.result.inRadius[j] : j \in 1..Len(req.result.inRadius) } :
       e.status = "instock" /\ e.available = JsNumber(5)
  /\ \E e \in { req.result.inRadius[j] : j \in 1..Len(req.result.inRadius) }
              \cup { req.result.outOfRadius[j] : j \in 1..Len(req.result.outOfRadius) } :
       e.status = "unknown" /\ e.available = JsNull

\* A result list in non-decreasing order of distanceKm.
Ascending(list) ==
  \A i \in 1..Len(list), j \in 1..Len(list) :
    i < j => list[i].distanceKm <= list[j].distanceKm

\* C11: in every returned result inRadius and outOfRadius are each ordered by
\* non-decreasing distanceKm, whatever order the locations were listed in and
\* whatever order their geocoding tasks finished in.
C11_ListsAscending ==
  req.pc = "returned" =>
    Ascending(req.result.inRadius) /\ Ascending(req.result.outOfRadius)

\* C11 witness: two locations within the radius at different distances, the
\* nearer one listed second by the platform and first in inRadius.
C11_Witness ==
  /\ req.pc = "returned"
  /\ Len(req.result.inRadius) = 2
  /\ req.locations[1].id = "L1"
  /\ req.result.inRadius[1].locationId = "L2"
  /\ req.result.inRadius[1].distanceKm < req.result.inRadius[2].distanceKm

(***************************************************************************)
(* Claims about fetchShopifyLocations (checked under SpecFetch).           *)
(***************************************************************************)
\* C12 (as claimed): a call that misses the location-list cache returns
\* exactly the active nodes of the collection, each once and in page order,
\* and stores that list under the shop's key; a call that finds the entry
\* returns it without a GraphQL request.
C12_FetchReturnsActiveOnce ==
  [][ \A c \in DOMAIN direct :
        (direct[c].pc # "returned" /\ direct'[c].pc = "returned") =>
          IF direct[c].pc = "idle"
            THEN /\ direct'[c].requests = << >>
                 /\ direct'[c].val = shopifyLocationsCache[direct'[c].shop]
            ELSE /\ direct'[c].val = ActiveLocations
                 /\ shopifyLocationsCache'[direct'[c].shop] = direct'[c].val ]_vars

\* C13: a page response that carries a GraphQL error array ends the call with
\* ShopifyGQLError carrying every reported message, in the step it arrives
\* in: no further page request is issued, no list is returned and the
\* location-list cache is left as it was.
C13_GqlErrorFailsWholeCall ==
  [][ \A c \in DOMAIN direct :
        (direct'[c] # direct[c] /\ direct'[c].pc # "idle"
           /\ direct'[c].last.kind = "errors") =>
          /\ direct'[c].pc = "thrown"
          /\ direct'[c].err.class = "ShopifyGQLError"
          /\ direct'[c].err.status = 502
          /\ direct'[c].err.meta.messages = << "throttled", "internal" >>
          /\ direct'[c].requests = direct[c].requests
          /\ shopifyLocationsCache' = shopifyLocationsCache ]_vars

\* C13 witness: the second page request was answered with GraphQL errors
\* after the first page had delivered a location; nothing is cached.
C13_Witness ==
  \E c \in DOMAIN direct :
    /\ direct[c].pc = "thrown"
    /\ direct[c].last.kind = "errors"
    /\ Len(direct[c].requests) = 2
    /\ direct[c].locations # << >>
    /\ direct[c].shop \notin DOMAIN shopifyLocationsCache

\* C18 (as claimed): every page request after the first carries the cursor of
\* the last edge received so far, so the cursor never returns to the start
\* of the collection and no page is requested twice.
C18_CursorAdvances ==
  \A c \in DOMAIN direct :
    direct[c].pc # "idle" =>
      \A i \in 1..Len(direct[c].requests), j \in 1..Len(direct[c].requests) :
        i < j => direct[c].requests[i] < direct[c].requests[j]

(***************************************************************************)
(* Further claims about buildPickupResponse (checked under SpecPickup).    *)
(***************************************************************************)
\* The entries of a result, inRadius first.
Entries(result) == result.inRadius \o result.outOfRadius

\* C14: a call with a variant id enters the fan-out only from the arrival of
\* its own quantities response, having issued one inventory-item request and
\* then one quantities request whatever the caches hold, and the available
\* values of its result are those of that response.
C14_InventoryAlwaysFresh ==
  [][ /\ (req'.pc = "fanout" /\ req.pc # "fanout" /\ Truthy(req'.in.variantId)) =>
           /\ req.pc = "inventoryLevels"
           /\ Len(req'.gql) >= 2
           /\ SubSeq(req'.gql, Len(req'.gql) - 1, Len(req'.gql))
                = << "inventoryItem", "inventoryLevels" >>
           /\ Cardinality({ i \in 1..Len(req'.gql) :
                              req'.gql[i] \in {"inventoryItem", "inventoryLevels"} }) = 2
           /\ \E answer \in LevelsAnswers :
                answer.kind = "ok" /\ req'.qtyByLoc = qtyMap(answer.edges)
      /\ (req'.pc = "returned" /\ req.pc # "returned" /\ Truthy(req'.in.variantId)) =>
           /\ req'.qtyByLoc = req.qtyByLoc
           /\ \A j \in 1..Len(Entries(req'.result)) :
                LET e == Entries(req'.result)[j]
                IN  e.available =
                      IF e.locationId \in DOMAIN req.qtyByLoc
                        THEN JsNumber(req.qtyByLoc[e.locationId])
                        ELSE JsNull ]_vars

\* C14 witness: a call with a variant id answered while the pincode, the
\* location list and every location's coordinates came from the caches; it
\* still issued both inventory requests and reports their quantity.
C14_Witness ==
  /\ req.pc = "returned"
  /\ Truthy(req.in.variantId)
  /\ ~req.live
  /\ req.gql = << "inventoryItem", "inventoryLevels" >>
  /\ \A id \in DOMAIN tasks : tasks[id].hit
  /\ \E j \in 1..Len(Entries(req.result)) :
       Entries(req.result)[j].available = JsNumber(5)

\* C16: the step in which a location's resolution ends as the sentinel stores
\* the sentinel in the location-coordinate cache under the location's id; a
\* later fan-out that finds the sentinel there takes it without issuing any
\* geocoding request for the location, and the result leaves the location
\* out.
C16_SentinelSticks ==
  [][ /\ \A id \in DOMAIN tasks' :
           ( /\ tasks'[id].pc = "done" /\ ~tasks'[id].hit /\ tasks'[id].g = fail
             /\ (id \notin DOMAIN tasks \/ tasks[id].pc # "done") )
           => (id \in DOMAIN locationGeoCache' /\ locationGeoCache'[id] = fail)
      /\ (req'.pc = "fanout" /\ req.pc # "fanout") =>
           \A id \in DOMAIN tasks' :
             (id \in DOMAIN locationGeoCache /\ locationGeoCache[id] = fail) =>
               tasks'[id] = TaskDone(fail, << >>, FALSE, TRUE)
      /\ (req'.pc = "returned" /\ req.pc = "fanout") =>
           \A id \in DOMAIN tasks :
             tasks[id].g = fail => Occurrences(Entries(req'.result), id) = 0 ]_vars

\* C16 witness: a request took the sentinel cached for L2 without a lookup
\* and left L2 out, while its live lookup for L1 was answered with a match.
C16_Witness ==
  /\ req.pc = "returned"
  /\ DOMAIN tasks = {"L1", "L2"}
  /\ tasks["L2"] = TaskDone(fail, << >>, FALSE, TRUE)
  /\ tasks["L1"].live /\ ~tasks["L1"].hit
  /\ Occurrences(Entries(req.result), "L1") = 1
  /\ Occurrences(Entries(req.result), "L2") = 0

\* The non-empty address parts of a location joined with ", ".
ComposedAddress(id) ==
  IF id = "L1" THEN << "a", ",", " ", "1", "2", "3", "4" >> ELSE << >>

\* The zip of a location, empty when it has none.
ZipOf(id) == IF id = "L1" THEN Q1234 ELSE << >>

\* C17: a resolution that missed the location-coordinate cache geocodes the
\* composed address first; it geocodes the zip only in a step in which the
\* composed-address lookup failed and only when the location has a zip; it
\* ends as the sentinel only after the zip lookup failed too or when there is
\* no zip; a location with no address part at all ends as the sentinel after
\* the single attempt on the empty string.
C17_AddressThenZipThenSentinel ==
  [][ \A id \in DOMAIN tasks' :
        ~tasks'[id].hit =>
          LET t == tasks'[id]
              n == Len(t.tried)
              first == id \notin DOMAIN tasks \/ Len(tasks[id].tried) < n
          IN  /\ n \in {1, 2}
              /\ t.tried[1] = ComposedAddress(id)
              /\ t.pc = "full" => n = 1
              /\ t.pc = "zip" => n = 2
              /\ n = 2 =>
                   /\ ZipOf(id) # << >>
                   /\ t.tried[2] = ZipOf(id)
                   /\ first => ( /\ id \in DOMAIN tasks
                                 /\ tasks[id].pc = "full"
                                 /\ ComposedAddress(id) \notin DOMAIN geocodeCache' )
              /\ (t.pc = "done" /\ t.g = fail) =>
                   n = (IF ZipOf(id) # << >> THEN 2 ELSE 1)
              /\ ( /\ t.pc = "done" /\ n = 1 /\ ZipOf(id) # << >>
                   /\ (id \notin DOMAIN tasks \/ tasks[id].pc # "done") ) =>
                   ( /\ ComposedAddress(id) \in DOMAIN geocodeCache'
                     /\ t.g = geocodeCache'[ComposedAddress(id)] ) ]_vars

\* C17 witness: L1 ended as the sentinel after its address and then its zip
\* were tried, L2 (no address part, no zip) after one attempt on "".
C17_Witness ==
  /\ DOMAIN tasks = {"L1", "L2"}
  /\ tasks["L1"].pc = "done" /\ ~tasks["L1"].hit /\ tasks["L1"].g = fail
  /\ tasks["L1"].tried = << ComposedAddress("L1"), Q1234 >>
  /\ tasks["L2"].pc = "done" /\ ~tasks["L2"].hit /\ tasks["L2"].g = fail
  /\ tasks["L2"].tried = << << >> >>

\* C19: a call whose pincode fails validation throws at once with status
\* 400, having issued no request and changed no cache; a call whose pincode
\* lookup fails throws the very error geocode threw, with no GraphQL request
\* issued and the location-list and location-coordinate caches unchanged; a
\* GraphQL request is issued only by a call whose pincode passed validation
\* and has been geocoded.
C19_NoGraphQLBeforePincode ==
  [][ /\ ( /\ req.pc = "idle" /\ req'.pc # "idle"
           /\ ~WellFormedPincode(req'.in.pincode) ) =>
           /\ req'.pc = "thrown"
           /\ req'.err.status = 400
           /\ ~req'.live
           /\ req'.gql = << >>
           /\ geocodeCache' = geocodeCache
           /\ locationGeoCache' = locationGeoCache
           /\ shopifyLocationsCache' = shopifyLocationsCache
      /\ (req.pc = "geocodePin" /\ req'.pc = "thrown") =>
           /\ \E answer \in Answers(req.frame) :
                LET f == geocodeResume(req.frame, GEOCODER_MODE, answer)
                IN  f.pc = "thrown" /\ req'.err = f.err
           /\ req'.err.class \in {"GeocodeNoResultError", "GeocodeProviderError", "AxiosError"}
           /\ req'.err.class = "GeocodeNoResultError" =>
                /\ req'.err.status = 422
                /\ req'.err.meta.query = Trim(StringOf(req.in.pincode))
           /\ req'.err.class = "GeocodeProviderError" => req'.err.status = 502
           /\ req'.gql = << >>
           /\ locationGeoCache' = locationGeoCache
           /\ shopifyLocationsCache' = shopifyLocationsCache
      /\ ( /\ req'.pc # "idle" /\ req'.gql # << >>
           /\ (req.pc = "idle" \/ req.gql # req'.gql) ) =>
           /\ WellFormedPincode(req'.in.pincode)
           /\ req'.pc \notin {"thrown", "geocodePin"}
           /\ ProviderPoint(req'.pin) ]_vars

\* C19 witness: the pincode lookup of a call failed with GeocodeNoResult
\* while a location list was cached; the call threw without a GraphQL request.
C19_Witness ==
  /\ req.pc = "thrown"
  /\ req.err.class = "GeocodeNoResultError"
  /\ req.live
  /\ req.gql = << >>
  /\ Shop \in DOMAIN shopifyLocationsCache

(***************************************************************************)
(* A caller that invokes buildPickupResponse repeatedly while no cache     *)
(* entry expires or is evicted, and keeps the first PickupResult it got    *)
(* (in `pure`) to compare later results with.                              *)
(***************************************************************************)
\* The caller takes the result or the error, and keeps its first result.
callerKeepsResult ==
  /\ req.pc \in Settled
  /\ req' = Idle
  /\ tasks' = << >>
  /\ pure' = IF req.pc = "returned" /\ pure.pc = "idle"
               THEN [pc |-> "first", in |-> req.in, result |-> req.result]
               ELSE pure
  /\ UNCHANGED << Config, quota, geocodeCache, locationGeoCache, shopifyLocationsCache,
                  direct >>

NextTwice ==
  \/ \E pincode \in PickupPincodes, variantId \in PickupVariants, radiusKm \in PickupRadii :
       buildPickupResponseCall(pincode, variantId, radiusKm)
  \/ /\ req.pc = "geocodePin"
     /\ \E answer \in Answers(req.frame) : geocodePinAnswer(answer)
  \/ /\ req.pc = "locationsPage"
     /\ \E answer \in PageAnswers(100, req.fetch.cursor) : locationsPageAnswer(answer)
  \/ \E answer \in InventoryItemAnswers : inventoryItemAnswer(answer)
  \/ \E answer \in LevelsAnswers : inventoryLevelsAnswer(answer)
  \/ \E id \in { t \in DOMAIN tasks : tasks[t].pc # "done" } :
       \E answer \in Answers(tasks[id].frame) : locationAnswer(id, answer)
  \/ buildPickupResponseAssemble
  \/ callerKeepsResult

SpecTwice == InitPickup /\ [][NextTwice]_vars

\* C15: a call without a variant that returns after an earlier call with the
\* same inputs returned, no cache entry having expired in between, returns
\* the same PickupResult and has issued no geocoding request and no
\* location-list request.
C15_SecondCallIdentical ==
  ( /\ req.pc = "returned"
    /\ pure.pc = "first"
    /\ req.in = pure.in
    /\ req.in.variantId = JsUndefined )
  => /\ req.result = pure.result
     /\ ~req.live
     /\ \A id \in DOMAIN tasks : tasks[id].hit /\ ~tasks[id].live
     /\ req.gql = << >>

\* C15 witness: the second of two identical calls without a variant has
\* returned; the first had dropped a location that could not be geocoded.
C15_Witness ==
  /\ req.pc = "returned"
  /\ pure.pc = "first"
  /\ req.in = pure.in
  /\ req.in.variantId = JsUndefined
  /\ Len(Entries(pure.result)) = 1
  /\ \E id \in DOMAIN tasks : tasks[id].g = fail

(***************************************************************************)
(* A direct caller of geocode running interleaved with buildPickupResponse *)
(* calls for the same pincode, as the geocode invocation of a second       *)
(* request does: both look up the key "1234".  No cache entry expires.     *)
(***************************************************************************)
RaceAddresses == { Q1234, Q1234Padded }

NextConcurrent ==
  \/ buildPickupResponseCall(JsString(Q1234), JsUndefined, JsUndefined)
  \/ /\ req.pc = "geocodePin"
     /\ \E answer \in Answers(req.frame) : geocodePinAnswer(answer)
  \/ /\ req.pc = "locationsPage"
     /\ \E answer \in PageAnswers(100, req.fetch.cursor) : locationsPageAnswer(answer)
  \/ \E id \in { t \in DOMAIN tasks : tasks[t].pc # "done" } :
       \E answer \in Answers(tasks[id].frame) : locationAnswer(id, answer)
  \/ buildPickupResponseAssemble
  \/ buildPickupResponseSettled
  \/ \E c \in DOMAIN direct, address \in RaceAddresses : geocodeCall(c, address)
  \/ \E c \in DOMAIN direct : \E answer \in Answers(direct[c]) : geocodeAnswer(c, answer)
  \/ \E c \in DOMAIN direct : geocodeSettled(c)

SpecConcurrent == InitPickup /\ [][NextConcurrent]_vars

\* C20: with geocode invocations for one key interleaved, an invocation that
\* returns after a live lookup returns the point its own last request was
\* answered with and leaves exactly that point in the raw geocode cache (the
\* last writer wins); every change of an entry is such a write; an invocation
\* that fails leaves the cache as it is and no step removes an entry (no
\* entry expires here); the resolver assembles its result only when every
\* task of its fan-out is done.
C20_LastWriterWins ==
  [][ /\ \A c \in DOMAIN direct :
           /\ (direct[c].pc \in Waiting /\ direct'[c].pc = "returned") =>
                /\ direct'[c].val = direct'[c].outs[Len(direct'[c].outs)].point
                /\ direct'[c].orig \in DOMAIN geocodeCache'
                /\ geocodeCache'[direct'[c].orig] = direct'[c].val
           /\ (direct[c].pc \in Waiting /\ direct'[c].pc = "thrown") =>
                geocodeCache' = geocodeCache
      /\ (req.pc = "geocodePin" /\ req'.pc \notin {"geocodePin", "thrown"}) =>
           (req.frame.orig \in DOMAIN geocodeCache'
              /\ geocodeCache'[req.frame.orig] = req'.pin)
      /\ (req.pc = "geocodePin" /\ req'.pc = "thrown") => geocodeCache' = geocodeCache
      /\ \A id \in DOMAIN tasks :
           (tasks[id].pc # "done" /\ id \in DOMAIN tasks' /\ tasks'[id] # tasks[id]) =>
             IF tasks'[id].pc = "done" /\ tasks'[id].g # fail
               THEN \E i \in 1..Len(tasks'[id].tried) :
                      /\ tasks'[id].tried[i] \in DOMAIN geocodeCache'
                      /\ geocodeCache'[tasks'[id].tried[i]] = tasks'[id].g
               ELSE (tasks'[id].pc = "done" \/ tasks'[id].pc # tasks[id].pc) =>
                      geocodeCache' = geocodeCache
      /\ \A k \in DOMAIN geocodeCache' :
           (k \notin DOMAIN geocodeCache \/ geocodeCache'[k] # geocodeCache[k]) =>
             \/ \E c \in DOMAIN direct :
                  /\ direct[c].pc \in Waiting /\ direct'[c].pc = "returned"
                  /\ direct'[c].orig = k /\ direct'[c].val = geocodeCache'[k]
             \/ /\ req.pc = "geocodePin" /\ req'.pc \notin {"geocodePin", "thrown"}
                /\ req.frame.orig = k /\ req'.pin = geocodeCache'[k]
             \/ \E id \in DOMAIN tasks :
                  /\ tasks[id].pc # "done" /\ tasks[id].frame.orig = k
                  /\ tasks'[id].pc = "done" /\ tasks'[id].g = geocodeCache'[k]
      /\ DOMAIN geocodeCache \subseteq DOMAIN geocodeCache'
      /\ (req.pc = "fanout" /\ req'.pc = "returned") =>
           /\ DOMAIN tasks = { req.locations[i].id : i \in 1..Len(req.locations) }
           /\ \A id \in DOMAIN tasks : tasks[id].pc = "done" ]_vars

\* C20 witness: a direct geocode call and a request's pincode lookup both
\* missed on "1234" and both were answered with a match, at different
\* points; the cache holds the point of the one that returned last.
C20_Witness ==
  /\ direct["d1"].pc = "returned"
  /\ direct["d1"].calls # << >>
  /\ direct["d1"].orig = Q1234
  /\ req.pc = "fanout"
  /\ req.live
  /\ req.pin # direct["d1"].val
  /\ Q1234 \in DOMAIN geocodeCache
  /\ geocodeCache[Q1234] = req.pin

====
